---- MODULE Spec2Model ----
(***************************************************************************)
(* A model of process_data.py: the two score mappers a_adp and a_div, the  *)
(* respondent classifier process_participant, the per-country aggregation  *)
(* loop process_country and the driver under __main__.                     *)
(*                                                                         *)
(* Scores are Python floats in the source.  They are modelled as exact     *)
(* fractions <<num, den>> in lowest terms with den > 0, so that -1, 0 and  *)
(* (v - 5.5) / 4.5 are compared exactly; floating-point rounding of the    *)
(* sums is not modelled.                                                   *)
(***************************************************************************)
EXTENDS Integers, Sequences, FiniteSets, TLC

VARIABLES
    readable,     \* whether EVS2017.sav can be read and parsed
    dataset,      \* the rows held by EVS2017.sav
    pc,           \* position of the driver
    df,           \* the loaded dataframe (line 143)
    countries,    \* list(df['c_abrv'].unique()) (line 146)
    ci,           \* index into countries of the country being processed
    i,            \* loop index of process_country (line 108), rows done so far
    acc,          \* the ten accumulators of process_country (lines 97-106)
    dictionary,   \* insertion-ordered dict country -> dict_ (lines 145, 149)
    csv_rows,     \* the table built at lines 150-158
    csv_file,     \* contents of processed_data.csv, or NoFile while untouched
    err,          \* the exception that ended the run, or NoError
    element,      \* a single dataframe row handed to the mappers
    out_adp,      \* result of a_adp(element), or NotCalled
    out_div,      \* result of a_div(element), or NotCalled
    out_part      \* result of process_participant on the one-row frame

vars == <<readable, dataset, pc, df, countries, ci, i, acc, dictionary, csv_rows,
          csv_file, err, element, out_adp, out_div, out_part>>

driverVars == <<readable, dataset, pc, df, countries, ci, i, acc, dictionary, csv_rows,
                csv_file, err>>

rowVars == <<element, out_adp, out_div, out_part>>

(***************************************************************************)
(* Bounds.                                                                 *)
(***************************************************************************)
MaxRows == 4

\* integer answers 0..MaxAnswer are tried, as numbers and as texts
MaxAnswer == 11

(***************************************************************************)
(* Python values.                                                          *)
(***************************************************************************)
\* None is the empty tuple: every value that may be None is a tuple.
None == <<>>
NotCalled == <<"NotCalled">>
NoFile == <<>>
NoError == "no error"

\* Exact fractions.
RECURSIVE GCD(_, _)
GCD(a, b) == IF b = 0 THEN a ELSE GCD(b, a % b)

Abs(n) == IF n < 0 THEN -n ELSE n

\* n / d for d > 0, in lowest terms.
Frac(n, d) ==
    LET g == GCD(Abs(n), d)
    IN  <<n \div g, d \div g>>

Zero == <<0, 1>>

FracAdd(x, y) == Frac(x[1] * y[2] + y[1] * x[2], x[2] * y[2])

FracDivInt(x, n) == Frac(x[1], x[2] * n)

FracLeq(x, y) == x[1] * y[2] <= y[1] * x[2]

(***************************************************************************)
(* Raw cell values.  v6 and v82 hold category labels (strings); a missing  *)
(* cell is NaN, which equals no label and is no key of category_dic.  v155 *)
(* holds a text, an integral number or NaN.                                *)
(***************************************************************************)
NaN == "NaN"

Text(s) == [kind |-> "str", text |-> s, num |-> 0]
Number(n) == [kind |-> "num", text |-> <<>>, num |-> n]
NaNCell == [kind |-> "nan", text |-> <<>>, num |-> 0]

never == Text(<<"n", "e", "v", "e", "r">>)
always == Text(<<"a", "l", "w", "a", "y", "s">>)

DigitVal ==
    "0" :> 0 @@ "1" :> 1 @@ "2" :> 2 @@ "3" :> 3 @@ "4" :> 4 @@
    "5" :> 5 @@ "6" :> 6 @@ "7" :> 7 @@ "8" :> 8 @@ "9" :> 9

IsDigits(s) == Len(s) > 0 /\ \A k \in 1..Len(s) : s[k] \in DOMAIN DigitVal

RECURSIVE DigitsValue(_)
DigitsValue(s) ==
    IF s = <<>> THEN 0
    ELSE 10 * DigitsValue(SubSeq(s, 1, Len(s) - 1)) + DigitVal[s[Len(s)]]

HasSign(s) == Len(s) > 0 /\ s[1] \in {"+", "-"}

Unsigned(s) == IF HasSign(s) THEN Tail(s) ELSE s

\* int(x) succeeds: an integral number, or a text of an optional sign and
\* decimal digits.  int(nan) and int of any other text raise ValueError.
IntParses(x) ==
    \/ x.kind = "num"
    \/ x.kind = "str" /\ IsDigits(Unsigned(x.text))

\* int(x) where it succeeds.
PyInt(x) ==
    IF x.kind = "num" THEN x.num
    ELSE IF HasSign(x.text) /\ x.text[1] = "-"
         THEN -DigitsValue(Unsigned(x.text))
         ELSE DigitsValue(Unsigned(x.text))

(***************************************************************************)
(* a_adp (lines 11-29).                                                    *)
(***************************************************************************)
category_dic ==
    "agree strongly" :> 1 @@ "agree" :> 2 @@
    "neither agree nor disagree" :> 3 @@ "disagree" :> 4 @@
    "disagree strongly" :> 5

a_adp(elem) ==
    IF elem.v82 \in DOMAIN category_dic
    THEN Frac(-(category_dic[elem.v82] - 3), 2)
    ELSE None

(***************************************************************************)
(* a_div (lines 32-48).  (int_value - 5.5) / 4.5 = (2 int_value - 11) / 9. *)
(***************************************************************************)
DivValue(int_value) == Frac(2 * int_value - 11, 9)

a_div_alwaysOne(elem) ==
    IF elem.v155 = never THEN DivValue(1)
    ELSE IF elem.v155 = always THEN DivValue(1)
    ELSE IF IntParses(elem.v155) THEN DivValue(PyInt(elem.v155))
    ELSE None

a_div(elem) ==
    IF elem.v155 = never THEN DivValue(1)
    ELSE IF elem.v155 = always THEN DivValue(10)
    ELSE IF IntParses(elem.v155) THEN DivValue(PyInt(elem.v155))
    ELSE None

(***************************************************************************)
(* process_participant (lines 51-82).                                      *)
(***************************************************************************)
\* dataframe[dataframe['caseno'] == caseno].iloc[0] (line 63)
RowsWithCaseno(dataframe, caseno) ==
    {k \in 1..Len(dataframe) : dataframe[k].caseno = caseno}

Min(S) == CHOOSE m \in S : \A k \in S : m <= k

Lookup(dataframe, caseno) == dataframe[Min(RowsWithCaseno(dataframe, caseno))]

\* lines 64-73: the local religious, <<TRUE>>, <<FALSE>> or None
ReligiousQuiteIsFalse(religiousness) ==
    IF religiousness = "not at all important" \/ religiousness = "not important"
       \/ religiousness = "quite important"
    THEN <<FALSE>>
    ELSE IF religiousness = "very important"
    THEN <<TRUE>>
    ELSE None

Religious(religiousness) ==
    IF religiousness = "not at all important" \/ religiousness = "not important"
    THEN <<FALSE>>
    ELSE IF religiousness = "quite important" \/ religiousness = "very important"
    THEN <<TRUE>>
    ELSE None

\* lines 75-82 on the row found; the tuple returned is 1-indexed here:
\* tuple_[1] is Python's tuple_[0]
ParticipantKeepsUndetermined(dataframe_row) ==
    LET religious == Religious(dataframe_row.v6)
        action_adp == a_adp(dataframe_row)
        action_div == a_div(dataframe_row)
    IN  IF religious = None THEN <<FALSE, action_adp, action_div>>
        ELSE <<religious[1], action_adp, action_div>>

Participant(dataframe_row) ==
    LET religious == Religious(dataframe_row.v6)
        action_adp == a_adp(dataframe_row)
        action_div == a_div(dataframe_row)
    IN  IF religious = None THEN None
        ELSE <<religious[1], action_adp, action_div>>

process_participant(dataframe, caseno) == Participant(Lookup(dataframe, caseno))

(***************************************************************************)
(* process_country (lines 85-139).                                         *)
(***************************************************************************)
\* df = dataframe[dataframe['c_abrv'] == country] (line 93)
FilterCountry(dataframe, country) ==
    LET InCountry(r) == r.c_abrv = country
    IN  SelectSeq(dataframe, InCountry)

\* lines 97-106
ZeroAcc ==
    [n_religious |-> 0, n_nonreligious |-> 0,
     n_rel_adp |-> 0, n_nonrel_adp |-> 0,
     n_rel_div |-> 0, n_nonrel_div |-> 0,
     sum_a_adp_rel |-> Zero, sum_a_adp_nonrel |-> Zero,
     sum_a_div_rel |-> Zero, sum_a_div_nonrel |-> Zero]

\* lines 111-130: one pass of the loop body on the classifier's result.
\* "if tuple_" is true of every 3-tuple and false of None.
LoopBodyTruthy(a, tuple_) ==
    IF tuple_ # None
    THEN IF tuple_[1]
         THEN [a EXCEPT
                 !.n_religious = @ + 1,
                 !.n_rel_adp = IF tuple_[2] \notin {None, Zero} THEN @ + 1 ELSE @,
                 !.sum_a_adp_rel =
                     IF tuple_[2] \notin {None, Zero} THEN FracAdd(@, tuple_[2]) ELSE @,
                 !.n_rel_div = IF tuple_[3] \notin {None, Zero} THEN @ + 1 ELSE @,
                 !.sum_a_div_rel =
                     IF tuple_[3] \notin {None, Zero} THEN FracAdd(@, tuple_[3]) ELSE @]
         ELSE [a EXCEPT
                 !.n_nonreligious = @ + 1,
                 !.n_nonrel_adp = IF tuple_[2] \notin {None, Zero} THEN @ + 1 ELSE @,
                 !.sum_a_adp_nonrel =
                     IF tuple_[2] \notin {None, Zero} THEN FracAdd(@, tuple_[2]) ELSE @,
                 !.n_nonrel_div = IF tuple_[3] \notin {None, Zero} THEN @ + 1 ELSE @,
                 !.sum_a_div_nonrel =
                     IF tuple_[3] \notin {None, Zero} THEN FracAdd(@, tuple_[3]) ELSE @]
    ELSE a

LoopBodyCountWithScore(a, tuple_) ==
    IF tuple_ # None
    THEN IF tuple_[1]
         THEN [a EXCEPT
                 !.n_religious = IF tuple_[2] # None THEN @ + 1 ELSE @,
                 !.n_rel_adp = IF tuple_[2] # None THEN @ + 1 ELSE @,
                 !.sum_a_adp_rel = IF tuple_[2] # None THEN FracAdd(@, tuple_[2]) ELSE @,
                 !.n_rel_div = IF tuple_[3] # None THEN @ + 1 ELSE @,
                 !.sum_a_div_rel = IF tuple_[3] # None THEN FracAdd(@, tuple_[3]) ELSE @]
         ELSE [a EXCEPT
                 !.n_nonreligious = IF tuple_[2] # None THEN @ + 1 ELSE @,
                 !.n_nonrel_adp = IF tuple_[2] # None THEN @ + 1 ELSE @,
                 !.sum_a_adp_nonrel = IF tuple_[2] # None THEN FracAdd(@, tuple_[2]) ELSE @,
                 !.n_nonrel_div = IF tuple_[3] # None THEN @ + 1 ELSE @,
                 !.sum_a_div_nonrel = IF tuple_[3] # None THEN FracAdd(@, tuple_[3]) ELSE @]
    ELSE a

LoopBody(a, tuple_) ==
    IF tuple_ # None
    THEN IF tuple_[1]
         THEN [a EXCEPT
                 !.n_religious = @ + 1,
                 !.n_rel_adp = IF tuple_[2] # None THEN @ + 1 ELSE @,
                 !.sum_a_adp_rel = IF tuple_[2] # None THEN FracAdd(@, tuple_[2]) ELSE @,
                 !.n_rel_div = IF tuple_[3] # None THEN @ + 1 ELSE @,
                 !.sum_a_div_rel = IF tuple_[3] # None THEN FracAdd(@, tuple_[3]) ELSE @]
         ELSE [a EXCEPT
                 !.n_nonreligious = @ + 1,
                 !.n_nonrel_adp = IF tuple_[2] # None THEN @ + 1 ELSE @,
                 !.sum_a_adp_nonrel = IF tuple_[2] # None THEN FracAdd(@, tuple_[2]) ELSE @,
                 !.n_nonrel_div = IF tuple_[3] # None THEN @ + 1 ELSE @,
                 !.sum_a_div_nonrel = IF tuple_[3] # None THEN FracAdd(@, tuple_[3]) ELSE @]
    ELSE a

\* lines 109-110 for the row at 1-based position k of the country's frame
IterationGlobalLookup(dataframe, frame, k) ==
    process_participant(dataframe, frame[k].caseno)

Iteration(dataframe, frame, k) == process_participant(frame, frame[k].caseno)

\* lines 132-139: a zero count makes the division raise ZeroDivisionError
Raises(a) ==
    \/ a.n_rel_adp = 0
    \/ a.n_nonrel_adp = 0
    \/ a.n_rel_div = 0
    \/ a.n_nonrel_div = 0

ReturnDict(a) ==
    [rel |-> a.n_religious,
     nonrel |-> a.n_nonreligious,
     a_adp_rel |-> FracDivInt(a.sum_a_adp_rel, a.n_rel_adp),
     a_adp_nonrel |-> FracDivInt(a.sum_a_adp_nonrel, a.n_nonrel_adp),
     a_div_rel |-> FracDivInt(a.sum_a_div_rel, a.n_rel_div),
     a_div_nonrel |-> FracDivInt(a.sum_a_div_nonrel, a.n_nonrel_div)]

(***************************************************************************)
(* The driver (lines 142-162).                                             *)
(***************************************************************************)
\* list(df['c_abrv'].unique()): the distinct codes in order of appearance
RECURSIVE Unique(_)
Unique(codes) ==
    IF codes = <<>> THEN <<>>
    ELSE LET front == Unique(SubSeq(codes, 1, Len(codes) - 1))
             last == codes[Len(codes)]
         IN  IF \E k \in 1..Len(front) : front[k] = last
             THEN front
             ELSE Append(front, last)

Codes(dataframe) == [k \in 1..Len(dataframe) |-> dataframe[k].c_abrv]

\* lines 150-152; the keys of the dict built at lines 132-139, in order
Columns == <<"country", "rel", "nonrel", "a_adp_rel", "a_adp_nonrel",
             "a_div_rel", "a_div_nonrel">>

\* lines 154-158: one row per key of dictionary, in insertion order
CsvRow(entry) ==
    <<entry[1], entry[2].rel, entry[2].nonrel, entry[2].a_adp_rel,
      entry[2].a_adp_nonrel, entry[2].a_div_rel, entry[2].a_div_nonrel>>

CsvRows(dict) == <<Columns>> \o [k \in 1..Len(dict) |-> CsvRow(dict[k])]

\* line 143: pd.read_spss raises on an unreadable or malformed file
ReadSpss ==
    /\ pc = "read"
    /\ IF readable
       THEN /\ df' = dataset
            /\ countries' = Unique(Codes(dataset))
            /\ ci' = 1
            /\ pc' = "for_country"
            /\ err' = err
       ELSE /\ pc' = "aborted"
            /\ err' = "ReadError"
            /\ UNCHANGED <<df, countries, ci>>
    /\ UNCHANGED <<readable, dataset, i, acc, dictionary, csv_rows, csv_file>>
    /\ UNCHANGED rowVars

\* line 146, one more country: process_country is entered (lines 93-106)
EnterCountry ==
    /\ pc = "for_country"
    /\ ci <= Len(countries)
    /\ acc' = ZeroAcc
    /\ i' = 0
    /\ pc' = "loop"
    /\ UNCHANGED <<readable, dataset, df, countries, ci, dictionary, csv_rows,
                   csv_file, err>>
    /\ UNCHANGED rowVars

\* lines 108-130: one iteration of the loop
LoopIteration ==
    /\ pc = "loop"
    /\ LET frame == FilterCountry(df, countries[ci])
       IN  /\ i < Len(frame)
           /\ acc' = LoopBody(acc, Iteration(df, frame, i + 1))
           /\ i' = i + 1
    /\ UNCHANGED <<readable, dataset, pc, df, countries, ci, dictionary, csv_rows,
                   csv_file, err>>
    /\ UNCHANGED rowVars

\* lines 132-139 and 149: the loop is over; the means are computed and the
\* dict is stored, or the division raises and the run ends
ReturnCountry ==
    /\ pc = "loop"
    /\ i = Len(FilterCountry(df, countries[ci]))
    /\ IF Raises(acc)
       THEN /\ pc' = "aborted"
            /\ err' = "ZeroDivisionError"
            /\ UNCHANGED <<dictionary, ci>>
       ELSE /\ dictionary' = Append(dictionary, <<countries[ci], ReturnDict(acc)>>)
            /\ ci' = ci + 1
            /\ pc' = "for_country"
            /\ err' = err
    /\ UNCHANGED <<readable, dataset, df, countries, i, acc, csv_rows, csv_file>>
    /\ UNCHANGED rowVars

\* lines 150-158: the table is built; with no country at all the name
\* country is unbound at line 151 and NameError is raised
BuildRows ==
    /\ pc = "for_country"
    /\ ci > Len(countries)
    /\ IF countries = <<>>
       THEN /\ pc' = "aborted"
            /\ err' = "NameError"
            /\ csv_rows' = csv_rows
       ELSE /\ csv_rows' = CsvRows(dictionary)
            /\ pc' = "write"
            /\ err' = err
    /\ UNCHANGED <<readable, dataset, df, countries, ci, i, acc, dictionary, csv_file>>
    /\ UNCHANGED rowVars

\* lines 160-162
WriteFile ==
    /\ pc = "write"
    /\ csv_file' = csv_rows
    /\ pc' = "done"
    /\ UNCHANGED <<readable, dataset, df, countries, ci, i, acc, dictionary, csv_rows,
                   err>>
    /\ UNCHANGED rowVars

Next == ReadSpss \/ EnterCountry \/ LoopIteration \/ ReturnCountry \/ BuildRows
        \/ WriteFile

(***************************************************************************)
(* Inputs.                                                                 *)
(***************************************************************************)
CountryCodes == {"ES", "FR"}

Answer(v6, v82, v155) == [v6 |-> v6, v82 |-> v82, v155 |-> v155]

\* The respondents of the driver's datasets: each religiosity outcome, with
\* each score present, missing, and (adoption) exactly zero.
Respondents ==
    {Answer("very important", "agree", never),
     Answer("not important", NaN, Text(<<"5">>)),
     Answer("dont know", "agree", never),
     Answer("not important", "disagree", always),
     Answer("very important", "neither agree nor disagree", NaNCell),
     Answer("not important", NaN, NaNCell),
     Answer(NaN, NaN, Text(<<"5">>))}

Answers ==
    {[c_abrv |-> c, v6 |-> r.v6, v82 |-> r.v82, v155 |-> r.v155] :
        c \in CountryCodes, r \in Respondents}

\* The case number of the data model: the position of the row among the
\* rows of its country, so unique within a country and repeated across them.
WithCaseno(answers) ==
    [k \in 1..Len(answers) |->
        [c_abrv |-> answers[k].c_abrv,
         caseno |-> Cardinality({j \in 1..k : answers[j].c_abrv = answers[k].c_abrv}),
         v6 |-> answers[k].v6, v82 |-> answers[k].v82, v155 |-> answers[k].v155]]

NoRow == [c_abrv |-> "", caseno |-> 0, v6 |-> NaN, v82 |-> NaN, v155 |-> NaNCell]

DriverStart ==
    /\ pc = "read"
    /\ df = <<>>
    /\ countries = <<>>
    /\ ci = 0
    /\ i = 0
    /\ acc = ZeroAcc
    /\ dictionary = <<>>
    /\ csv_rows = <<>>
    /\ csv_file = NoFile
    /\ err = NoError
    /\ element = NoRow
    /\ out_adp = NotCalled
    /\ out_div = NotCalled
    /\ out_part = NotCalled

Init ==
    /\ \/ /\ readable = TRUE
          /\ \E n \in 0..MaxRows : \E answers \in [1..n -> Answers] :
                dataset = WithCaseno(answers)
       \/ /\ readable = FALSE
          /\ dataset = <<>>
    /\ DriverStart

Spec == Init /\ [][Next]_vars

(***************************************************************************)
(* The same driver on datasets whose case numbers are arbitrary: they may  *)
(* repeat within a country as well as across countries.                    *)
(***************************************************************************)
CaseNumbers == {1, 2}

RespondentsAny ==
    {Answer("very important", "agree", never),
     Answer("not important", "disagree", always),
     Answer("dont know", "agree", never)}

RowsAny ==
    {[c_abrv |-> c, caseno |-> n, v6 |-> r.v6, v82 |-> r.v82, v155 |-> r.v155] :
        c \in CountryCodes, n \in CaseNumbers, r \in RespondentsAny}

InitAny ==
    /\ readable = TRUE
    /\ \E n \in 0..MaxRows : dataset \in [1..n -> RowsAny]
    /\ DriverStart

SpecAny == InitAny /\ [][Next]_vars

(***************************************************************************)
(* The mappers and the classifier applied to one row with any answers.     *)
(***************************************************************************)
\* str(n) for n >= 0
RECURSIVE PyStr(_)
PyStr(n) ==
    LET digit == CHOOSE c \in DOMAIN DigitVal : DigitVal[c] = n % 10
    IN  IF n < 10 THEN <<digit>> ELSE Append(PyStr(n \div 10), digit)

V6All ==
    {"not at all important", "not important", "quite important",
     "very important", "dont know", "no answer", NaN}

V82All == DOMAIN category_dic \cup {"dont know", NaN}

V155All ==
    {never, always, NaNCell}
    \cup {Text(PyStr(v)) : v \in 0..MaxAnswer}
    \cup {Number(v) : v \in 0..MaxAnswer}
    \cup {Text(<<"a", "b", "c">>), Text(<<>>), Text(<<"-", "1">>),
          Text(<<"+", "7">>), Text(<<"5", "x">>)}

InitRow ==
    /\ readable = TRUE
    /\ dataset = <<>>
    /\ pc = "mappers"
    /\ df = <<>>
    /\ countries = <<>>
    /\ ci = 0
    /\ i = 0
    /\ acc = ZeroAcc
    /\ dictionary = <<>>
    /\ csv_rows = <<>>
    /\ csv_file = NoFile
    /\ err = NoError
    /\ \E a \in V6All, b \in V82All, c \in V155All :
          element = [c_abrv |-> "ES", caseno |-> 1, v6 |-> a, v82 |-> b, v155 |-> c]
    /\ out_adp = NotCalled
    /\ out_div = NotCalled
    /\ out_part = NotCalled

CallAdp ==
    /\ out_adp = NotCalled
    /\ out_adp' = a_adp(element)
    /\ UNCHANGED <<element, out_div, out_part>>
    /\ UNCHANGED driverVars

CallDiv ==
    /\ out_div = NotCalled
    /\ out_div' = a_div(element)
    /\ UNCHANGED <<element, out_adp, out_part>>
    /\ UNCHANGED driverVars

CallParticipant ==
    /\ out_part = NotCalled
    /\ out_part' = process_participant(<<element>>, element.caseno)
    /\ UNCHANGED <<element, out_adp, out_div>>
    /\ UNCHANGED driverVars

NextRow == CallAdp \/ CallDiv \/ CallParticipant

SpecRow == InitRow /\ [][NextRow]_vars

(***************************************************************************)
(* Vocabulary of the properties, stated from the answers alone.            *)
(***************************************************************************)
NonReligiousLevels == {"not at all important", "not important"}
ReligiousLevels == {"quite important", "very important"}
Undetermined(row) == row.v6 \notin NonReligiousLevels \cup ReligiousLevels

InUnitInterval(x) == FracLeq(<<-1, 1>>, x) /\ FracLeq(x, <<1, 1>>)

\* the rows of a country, as the dataset holds them
RowsOf(c) == FilterCountry(dataset, c)

\* the country whose rows process_country is looping over
Current == countries[ci]

\* positions in rows of the respondents of a group (TRUE: religious)
Group(rows, flag) ==
    {k \in 1..Len(rows) :
        rows[k].v6 \in (IF flag THEN ReligiousLevels ELSE NonReligiousLevels)}

\* the scores of the rows, position by position
AdpScores(rows) == [k \in 1..Len(rows) |-> a_adp(rows[k])]
DivScores(rows) == [k \in 1..Len(rows) |-> a_div(rows[k])]

\* positions in a group whose score is not missing
Contributors(rows, flag, scores) ==
    {k \in Group(rows, flag) : scores[k] # None}

RECURSIVE SumOver(_, _)
SumOver(scores, S) ==
    IF S = {} THEN Zero
    ELSE LET k == CHOOSE x \in S : TRUE
         IN  FracAdd(scores[k], SumOver(scores, S \ {k}))

\* the mean over the contributors, None when there is none
MeanOrMissing(rows, flag, scores) ==
    LET S == Contributors(rows, flag, scores)
    IN  IF S = {} THEN None
        ELSE FracDivInt(SumOver(scores, S), Cardinality(S))

Aggregate(rows) ==
    [rel |-> Cardinality(Group(rows, TRUE)),
     nonrel |-> Cardinality(Group(rows, FALSE)),
     a_adp_rel |-> MeanOrMissing(rows, TRUE, AdpScores(rows)),
     a_adp_nonrel |-> MeanOrMissing(rows, FALSE, AdpScores(rows)),
     a_div_rel |-> MeanOrMissing(rows, TRUE, DivScores(rows)),
     a_div_nonrel |-> MeanOrMissing(rows, FALSE, DivScores(rows))]

SomeMeanMissing(rows) ==
    \/ Contributors(rows, TRUE, AdpScores(rows)) = {}
    \/ Contributors(rows, FALSE, AdpScores(rows)) = {}
    \/ Contributors(rows, TRUE, DivScores(rows)) = {}
    \/ Contributors(rows, FALSE, DivScores(rows)) = {}

\* case numbers are unique within each country
UniqueWithinCountry(dataframe) ==
    \A j, k \in 1..Len(dataframe) :
        (/\ dataframe[j].c_abrv = dataframe[k].c_abrv
         /\ dataframe[j].caseno = dataframe[k].caseno) => j = k

(***************************************************************************)
(* C1.  process_country completes on every country, and reports a mean     *)
(* with no contributor as missing (None) while reporting rel, nonrel and   *)
(* the other means: it never raises on a zero count.                       *)
(***************************************************************************)
C1_MissingMeanReported ==
    /\ err # "ZeroDivisionError"
    /\ \A k \in 1..Len(dictionary) :
          dictionary[k][2] = Aggregate(RowsOf(dictionary[k][1]))

(***************************************************************************)
(* C2.  Every score a mapper returns is missing or lies in [-1, 1].        *)
(***************************************************************************)
C2_ScoresInUnitInterval ==
    /\ out_adp \notin {NotCalled, None} => InUnitInterval(out_adp)
    /\ out_div \notin {NotCalled, None} => InUnitInterval(out_div)

(***************************************************************************)
(* C3.  rel + nonrel never exceeds the number of rows processed so far;    *)
(* when the loop over a country is over, and in every dict returned,       *)
(* rel + nonrel is at most the number of rows of the country and equals it *)
(* exactly when no respondent of the country is undetermined.              *)
(***************************************************************************)
C3_CountsBoundedByRows ==
    /\ pc = "loop" =>
          /\ acc.n_religious + acc.n_nonreligious <= i
          /\ i = Len(RowsOf(Current)) =>
                (acc.n_religious + acc.n_nonreligious = i
                    <=> \A k \in 1..i : ~Undetermined(RowsOf(Current)[k]))
    /\ \A k \in 1..Len(dictionary) :
          LET rows == RowsOf(dictionary[k][1])
              d == dictionary[k][2]
          IN  /\ d.rel + d.nonrel <= Len(rows)
              /\ d.rel + d.nonrel = Len(rows)
                    <=> \A j \in 1..Len(rows) : ~Undetermined(rows[j])

\* a dict was returned for a country with an undetermined respondent
C3_Witness ==
    \E k \in 1..Len(dictionary) :
        LET rows == RowsOf(dictionary[k][1])
            d == dictionary[k][2]
        IN  /\ d.rel + d.nonrel < Len(rows)
            /\ \E j \in 1..Len(rows) : Undetermined(rows[j])

(***************************************************************************)
(* C4.  An iteration of the loop on a respondent whose religiosity answer  *)
(* is none of the four levels leaves all ten accumulators unchanged,       *)
(* whatever the adoption and divorce answers.                              *)
(***************************************************************************)
C4_ExcludedLeavesAccumulators ==
    [][(/\ pc = "loop"
        /\ i' = i + 1
        /\ Undetermined(RowsOf(Current)[i + 1])) => acc' = acc]_vars

\* an undetermined respondent with both answers recognised has just been
\* processed, after a respondent that was counted
C4_Witness ==
    /\ pc = "loop"
    /\ i >= 2
    /\ Undetermined(RowsOf(Current)[i])
    /\ a_adp(RowsOf(Current)[i]) # None
    /\ a_div(RowsOf(Current)[i]) # None
    /\ acc.n_religious + acc.n_nonreligious = i - 1

(***************************************************************************)
(* C5.  a_div gives -1 for "never", +1 for "always", (v - 5.5) / 4.5 for   *)
(* the text of every integer v in 1..10, and missing for an answer that is *)
(* neither an endpoint nor parseable as an integer.                        *)
(***************************************************************************)
C5_DivorceMapper ==
    out_div # NotCalled =>
        /\ element.v155 = never => out_div = <<-1, 1>>
        /\ element.v155 = always => out_div = <<1, 1>>
        /\ \A v \in 1..10 :
              element.v155 = Text(PyStr(v)) =>
                  /\ out_div # None
                  /\ 9 * out_div[1] = (2 * v - 11) * out_div[2]
        /\ element.v155 \in {NaNCell, Text(<<"a", "b", "c">>), Text(<<>>),
                             Text(<<"5", "x">>)} => out_div = None
        /\ (element.v155 \notin {never, always} /\ ~IntParses(element.v155))
              => out_div = None

\* the text "10" has been mapped to +1
C5_Witness ==
    /\ element.v155 = Text(<<"1", "0">>)
    /\ out_div = <<1, 1>>

(***************************************************************************)
(* C6.  process_participant classifies as non-religious exactly the two    *)
(* "not important" levels, as religious exactly the two "important" levels *)
(* and excludes every other answer; the triple holds the two mappers'      *)
(* scores of the same respondent.                                          *)
(***************************************************************************)
C6_Classifier ==
    out_part # NotCalled =>
        /\ out_part = None <=> Undetermined(element)
        /\ out_part # None =>
              /\ Len(out_part) = 3
              /\ out_part[1] = FALSE <=> element.v6 \in NonReligiousLevels
              /\ out_part[1] = TRUE <=> element.v6 \in ReligiousLevels
              /\ out_part[2] = a_adp(element)
              /\ out_part[3] = a_div(element)
              /\ out_adp # NotCalled => out_part[2] = out_adp
              /\ out_div # NotCalled => out_part[3] = out_div

\* "quite important" with the adoption answer missing was classified
C6_Witness ==
    /\ element.v6 = "quite important"
    /\ element.v82 = NaN
    /\ element.v155 = Number(3)
    /\ out_part = <<TRUE, None, <<-5, 9>>>>

(***************************************************************************)
(* C7.  Every dict returned holds the number of religious and of           *)
(* non-religious respondents of the country, whatever their scores, and    *)
(* the four means sum / count over exactly the respondents of the group    *)
(* whose score is not missing (a score of 0 included); and a dict is       *)
(* returned whenever each of the four means has a contributor.             *)
(***************************************************************************)
C7_CountsAndMeans ==
    /\ \A k \in 1..Len(dictionary) :
          LET rows == RowsOf(dictionary[k][1])
          IN  /\ ~SomeMeanMissing(rows)
              /\ dictionary[k][2] = Aggregate(rows)
    /\ (pc = "aborted" /\ err = "ZeroDivisionError") => SomeMeanMissing(RowsOf(Current))

\* a dict was returned whose religious adoption mean is 1/4: a respondent
\* with score 1/2 and one with score 0 whose divorce score is missing
C7_Witness ==
    \E k \in 1..Len(dictionary) :
        LET rows == RowsOf(dictionary[k][1])
            d == dictionary[k][2]
        IN  /\ d.a_adp_rel = <<1, 4>>
            /\ d.rel = 2
            /\ Cardinality(Contributors(rows, TRUE, DivScores(rows))) = 1
            /\ \E j \in 1..Len(rows) : a_adp(rows[j]) = Zero

(***************************************************************************)
(* C8.  The output file is touched only once every country is aggregated,  *)
(* a run that aborts leaves no output file, and only an unreadable input   *)
(* aborts the run.                                                         *)
(***************************************************************************)
C8_AbortOnlyOnUnreadableInput ==
    /\ csv_file # NoFile => (pc = "done" /\ Len(dictionary) = Len(countries))
    /\ pc = "aborted" => csv_file = NoFile
    /\ pc = "aborted" => ~readable

\* the first two conjuncts of C8 alone
WriteOnlyAfterAggregation ==
    /\ csv_file # NoFile => (pc = "done" /\ Len(dictionary) = Len(countries))
    /\ pc = "aborted" => csv_file = NoFile

(***************************************************************************)
(* C9.  For every readable dataset the run ends with an output table made  *)
(* of the header row and exactly one row per distinct country code, in the *)
(* order in which the codes are first encountered.                         *)
(***************************************************************************)
FirstAt(c) == Min({k \in 1..Len(dataset) : dataset[k].c_abrv = c})

TableInFirstSeenOrder(table) ==
    /\ table # NoFile
    /\ table[1] = <<"country", "rel", "nonrel", "a_adp_rel", "a_adp_nonrel",
                    "a_div_rel", "a_div_nonrel">>
    /\ {table[k][1] : k \in 2..Len(table)}
          = {dataset[k].c_abrv : k \in 1..Len(dataset)}
    /\ \A j, k \in 2..Len(table) :
          j < k => FirstAt(table[j][1]) < FirstAt(table[k][1])

C9_TableOfCountries ==
    (readable /\ pc \in {"done", "aborted"}) => TableInFirstSeenOrder(csv_file)

\* what holds of the runs that reach the write
WrittenTableInOrder ==
    pc = "done" => TableInFirstSeenOrder(csv_file)

(***************************************************************************)
(* C10.  When case numbers are unique within each country, the lookup by   *)
(* case number in the country's frame resolves every row to itself, and    *)
(* the accumulators, and every dict returned, are those of a single pass   *)
(* that classifies each row of the country directly.                       *)
(***************************************************************************)
RECURSIVE SinglePass(_, _)
SinglePass(rows, n) ==
    IF n = 0 THEN ZeroAcc
    ELSE LoopBody(SinglePass(rows, n - 1), Participant(rows[n]))

C10_LookupIsSinglePass ==
    UniqueWithinCountry(df) =>
        /\ pc = "loop" =>
              /\ \A k \in 1..Len(RowsOf(Current)) :
                    Lookup(RowsOf(Current), RowsOf(Current)[k].caseno)
                        = RowsOf(Current)[k]
              /\ acc = SinglePass(RowsOf(Current), i)
        /\ \A k \in 1..Len(dictionary) :
              LET rows == RowsOf(dictionary[k][1])
              IN  dictionary[k][2] = ReturnDict(SinglePass(rows, Len(rows)))

\* two rows of a country have been processed, the second one bearing a case
\* number that an earlier row of another country bears too
C10_Witness ==
    /\ pc = "loop"
    /\ i = 2
    /\ UniqueWithinCountry(df)
    /\ \E j, k \in 1..Len(df) :
          /\ j < k
          /\ df[k] = RowsOf(Current)[2]
          /\ df[j].c_abrv # df[k].c_abrv
          /\ df[j].caseno = df[k].caseno
          /\ df[j].v6 # df[k].v6

====
